---------------------------- MODULE Spec2Model ----------------------------
(***************************************************************************)
(* Base256: big-endian byte-sequence arithmetic (src/src/lib.rs).          *)
(*                                                                         *)
(* Every operation of the crate is a pure function of its operands, so     *)
(* each is an operator computed the way the code computes it, and the      *)
(* state machine draws operands in Init and applies one operation.         *)
(* A Base256 value is a sequence of bytes 0..255, index 1 most             *)
(* significant.                                                            *)
(***************************************************************************)
EXTENDS Integers, Sequences, FiniteSets

VARIABLES a, b, value, byte_length, pc, res, panicked

vars == <<a, b, value, byte_length, pc, res, panicked>>

---------------------------------------------------------------------------
(* Bounds of the model. *)

\* Longest operand drawn.
MaxLen == 2
\* Largest scalar multiplier drawn (the code takes a u8, 0..255).
MaxValue == 4
\* Largest byte_length (width) drawn.
MaxByteLength == 2

\* Byte values operands are built from: the ends of the u8 range, the
\* middle, and small values, so that carries, borrows and ties all occur.
ByteVals == {0, 1, 2, 128, 254, 255}

RECURSIVE SeqsUpTo(_)
SeqsUpTo(n) ==
    IF n = 0 THEN {<<>>}
    ELSE LET shorter == SeqsUpTo(n - 1)
         IN  shorter \cup {<<x>> \o s : x \in ByteVals,
                                         s \in {t \in shorter : Len(t) = n - 1}}

Operands == SeqsUpTo(MaxLen)

---------------------------------------------------------------------------
(* Helpers of the statements: the number a byte sequence denotes. *)

Max(x, y) == IF x >= y THEN x ELSE y
Min(x, y) == IF x <= y THEN x ELSE y

RECURSIVE Pow256(_)
Pow256(n) == IF n = 0 THEN 1 ELSE 256 * Pow256(n - 1)

\* Big-endian base-256 value; the empty sequence denotes 0.
RECURSIVE Value(_)
Value(s) ==
    IF Len(s) = 0 THEN 0
    ELSE Value(SubSeq(s, 1, Len(s) - 1)) * 256 + s[Len(s)]

---------------------------------------------------------------------------
(* The code. *)

\* Mutant: the overflow of val + overflow wraps and is not carried on.
add_scalar_overflow_wrapping(x, y, overflow) ==
    IF x + y <= 255
    THEN <<(x + y + overflow) % 256, 0>>
    ELSE LET r == x + y + overflow
             next_overflow == (r \div 256) % 256
         IN  <<(r - next_overflow * 256) % 256, next_overflow>>

\* fn add_scalar_overflow(a: u8, b: u8, overflow: u8) -> (u8, u8)
add_scalar_overflow(x, y, overflow) ==
    IF x + y <= 255                               \* a.checked_add(b) is Some
    THEN LET val == x + y
         IN  IF val + overflow <= 255             \* val.checked_add(overflow)
             THEN <<val + overflow, 0>>
             ELSE LET r == val + overflow
                      next_overflow == (r \div 256) % 256
                  IN  <<(r - next_overflow * 256) % 256, next_overflow>>
    ELSE LET r == x + y + overflow
             next_overflow == (r \div 256) % 256
         IN  <<(r - next_overflow * 256) % 256, next_overflow>>

\* fn sub_scalar_underflow(a: u8, b: u8, underflow: u8) -> (u8, u8)
sub_scalar_underflow(x, y, underflow) ==
    IF x >= y                                     \* a.checked_sub(b) is Some
    THEN LET val == x - y
         IN  IF val >= underflow                  \* val.checked_sub(underflow)
             THEN <<val - underflow, 0>>
             ELSE <<((x + 255) - y) % 256, 1>>
    ELSE <<((x + 255) - y) % 256, 1>>

\* Mutant: rev_b.reverse() is missing, so rhs is walked from its first byte.
add_zipped_elem_rhs_forward(self, rhs, k) ==
    IF k <= Len(self) /\ k <= Len(rhs)
    THEN <<self[Len(self) - k + 1], rhs[k]>>
    ELSE IF k <= Len(self)
         THEN <<self[Len(self) - k + 1], 0>>
         ELSE <<0, rhs[k]>>

\* The k-th pair (k = 1 is the last byte of each operand) that
\* rev_a.zip_longest(rev_b) yields in add, after the EitherOrBoth match.
add_zipped_elem(self, rhs, k) ==
    IF k <= Len(self) /\ k <= Len(rhs)
    THEN <<self[Len(self) - k + 1], rhs[Len(rhs) - k + 1]>>    \* Both(a, b)
    ELSE IF k <= Len(self)
         THEN <<self[Len(self) - k + 1], 0>>                   \* Left(a)
         ELSE <<0, rhs[Len(rhs) - k + 1]>>                     \* Right(b)

\* The state of add's loop after k pairs: the bytes inserted so far and the
\* overflow carried to the next pair.
RECURSIVE add_loop(_, _, _)
add_loop(self, rhs, k) ==
    IF k = 0
    THEN [res |-> <<>>, overflow |-> 0]
    ELSE LET prev == add_loop(self, rhs, k - 1)
             xy   == add_zipped_elem(self, rhs, k)
             r    == add_scalar_overflow(xy[1], xy[2], prev.overflow)
         IN  [res |-> <<r[1]>> \o prev.res,                \* res.insert(0, result)
              overflow |-> r[2]]

\* Mutant: the overflow left after the last pair is not inserted.
add_without_final_overflow(self, rhs) ==
    add_loop(self, rhs, Max(Len(self), Len(rhs))).res

\* impl Add for Base256: fn add(self, rhs)
add(self, rhs) ==
    LET st == add_loop(self, rhs, Max(Len(self), Len(rhs)))
    IN  IF st.overflow > 0
        THEN <<st.overflow>> \o st.res                     \* res.insert(0, overflow)
        ELSE st.res

\* Mutant: a numeric order, the shorter sequence padded with leading zeros.
lt_numeric(self, rhs) ==
    LET n == Max(Len(self), Len(rhs))
        pad(s) == [i \in 1..n |-> IF i <= n - Len(s) THEN 0 ELSE s[i - (n - Len(s))]]
    IN  \E i \in 1..n : /\ pad(self)[i] < pad(rhs)[i]
                        /\ \A j \in 1..(i - 1) : pad(self)[j] = pad(rhs)[j]

\* The derived Ord of Base256, which is that of Vec<u8>: the first unequal
\* byte decides, and of two sequences one a prefix of the other the shorter
\* is the smaller.
RECURSIVE lt(_, _)
lt(self, rhs) ==
    IF Len(self) = 0 THEN Len(rhs) > 0
    ELSE IF Len(rhs) = 0 THEN FALSE
    ELSE IF self[1] # rhs[1] THEN self[1] < rhs[1]
    ELSE lt(Tail(self), Tail(rhs))

\* The k-th pair that rev_a.zip_longest(rev_b) yields in sub.
sub_zipped_elem(self, rhs, k) ==
    IF k <= Len(self) /\ k <= Len(rhs)
    THEN <<self[Len(self) - k + 1], rhs[Len(rhs) - k + 1]>>    \* Both(a, b)
    ELSE IF k <= Len(self)
         THEN <<self[Len(self) - k + 1], 0>>                   \* Left(a)
         ELSE <<0, rhs[Len(rhs) - k + 1]>>                     \* Right(b)

\* The state of sub's loop after k pairs.
RECURSIVE sub_loop(_, _, _)
sub_loop(self, rhs, k) ==
    IF k = 0
    THEN [res |-> <<>>, underflow |-> 0]
    ELSE LET prev == sub_loop(self, rhs, k - 1)
             xy   == sub_zipped_elem(self, rhs, k)
             r    == sub_scalar_underflow(xy[1], xy[2], prev.underflow)
         IN  [res |-> <<r[1]>> \o prev.res,
              underflow |-> r[2]]

\* impl Sub for Base256: fn sub(self, rhs).  A panic yields no value: the
\* record's res is then the empty sequence and is never read.
sub(self, rhs) ==
    IF lt(self, rhs)
    THEN [panicked |-> TRUE, res |-> <<>>, underflow |-> 0]    \* panic!("Underflow")
    ELSE LET st == sub_loop(self, rhs, Max(Len(self), Len(rhs)))
         IN  [panicked |-> FALSE, res |-> st.res, underflow |-> st.underflow]

\* u8 ^ u8, bit by bit.
RECURSIVE xor_bits(_, _, _)
xor_bits(x, y, bits) ==
    IF bits = 0 THEN 0
    ELSE (((x % 2) + (y % 2)) % 2) + 2 * xor_bits(x \div 2, y \div 2, bits - 1)

xor_u8(x, y) == xor_bits(x, y, 8)

\* Mutant: the operands are aligned at their last byte, as add and sub do.
bitxor_aligned_at_end(self, rhs) ==
    LET n == Max(Len(self), Len(rhs))
        da == n - Len(self)
        db == n - Len(rhs)
    IN  [i \in 1..n |->
            IF i > da /\ i > db THEN xor_u8(self[i - da], rhs[i - db])
            ELSE IF i > da THEN self[i - da]
            ELSE rhs[i - db]]

\* impl BitXor for Base256: fn bitxor(self, rhs); zip_longest from index 0.
bitxor(self, rhs) ==
    [i \in 1..Max(Len(self), Len(rhs)) |->
        IF i <= Len(self) /\ i <= Len(rhs) THEN xor_u8(self[i], rhs[i])  \* Both
        ELSE IF i <= Len(self) THEN self[i]                              \* Left
        ELSE rhs[i]]                                                     \* Right

\* Mutant: the accumulator starts from self instead of [0].
RECURSIVE scalar_multiply_from_self(_, _)
scalar_multiply_from_self(self, n) ==
    IF n = 0 THEN self
    ELSE add(scalar_multiply_from_self(self, n - 1), self)

\* pub fn scalar_multiply(self, value: u8)
RECURSIVE scalar_multiply(_, _)
scalar_multiply(self, n) ==
    IF n = 0 THEN <<0>>
    ELSE add(scalar_multiply(self, n - 1), self)

\* impl Mul<u8> for Base256: fn mul(self, rhs: u8)
mul(self, n) == scalar_multiply(self, n)

\* Mutant: take(byte_length) keeps the leading bytes instead of the last.
wrapped_add_take(self, other, width) ==
    LET r == add(self, other)
    IN  IF Len(r) > width THEN SubSeq(r, 1, width) ELSE r

\* pub fn wrapped_add(self, other, byte_length: usize)
wrapped_add(self, other, width) ==
    LET r == add(self, other)
        inner_len == Len(r)
    IN  IF inner_len > width
        THEN SubSeq(r, (inner_len - width) + 1, inner_len)   \* skip(inner_len - byte_length)
        ELSE r

\* Mutant: the loop runs over 1..value, one addition short.
RECURSIVE wrapped_scalar_multiply_one_short(_, _, _)
wrapped_scalar_multiply_one_short(self, n, width) ==
    IF n <= 1 THEN <<0>>
    ELSE wrapped_add(wrapped_scalar_multiply_one_short(self, n - 1, width), self, width)

\* pub fn wrapped_scalar_multiply(self, value: u8, byte_length: usize)
RECURSIVE wrapped_scalar_multiply(_, _, _)
wrapped_scalar_multiply(self, n, width) ==
    IF n = 0 THEN <<0>>
    ELSE wrapped_add(wrapped_scalar_multiply(self, n - 1, width), self, width)

---------------------------------------------------------------------------
(* The state machine: operands are constructed, one operation is applied. *)

TypeOK ==
    /\ a \in Operands /\ b \in Operands
    /\ value \in 0..MaxValue
    /\ byte_length \in 0..MaxByteLength
    /\ pc \in {"new", "add", "sub", "bitxor", "wrapped_add",
               "scalar_multiply", "mul", "wrapped_scalar_multiply"}
    /\ panicked \in BOOLEAN

Finish(op, r) ==
    /\ pc' = op
    /\ res' = r
    /\ panicked' = FALSE
    /\ UNCHANGED <<a, b, value, byte_length>>

CallAdd == pc = "new" /\ Finish("add", add(a, b))

CallSub ==
    /\ pc = "new"
    /\ pc' = "sub"
    /\ res' = sub(a, b).res
    /\ panicked' = sub(a, b).panicked
    /\ UNCHANGED <<a, b, value, byte_length>>

CallBitXor == pc = "new" /\ Finish("bitxor", bitxor(a, b))

CallWrappedAdd == pc = "new" /\ Finish("wrapped_add", wrapped_add(a, b, byte_length))

CallScalarMultiply == pc = "new" /\ Finish("scalar_multiply", scalar_multiply(a, value))

CallMul == pc = "new" /\ Finish("mul", mul(a, value))

CallWrappedScalarMultiply ==
    pc = "new" /\ Finish("wrapped_scalar_multiply",
                         wrapped_scalar_multiply(a, value, byte_length))

\* a (op) b for the operators +, - and ^.
Init ==
    /\ a \in Operands /\ b \in Operands
    /\ value = 0 /\ byte_length = 0
    /\ pc = "new" /\ res = <<>> /\ panicked = FALSE

Next == CallAdd \/ CallSub \/ CallBitXor

Spec == Init /\ [][Next]_vars

\* a.wrapped_add(b, byte_length)
InitWrapped ==
    /\ a \in Operands /\ b \in Operands
    /\ value = 0 /\ byte_length \in 0..MaxByteLength
    /\ pc = "new" /\ res = <<>> /\ panicked = FALSE

NextWrapped == CallWrappedAdd

SpecWrapped == InitWrapped /\ [][NextWrapped]_vars

\* a.scalar_multiply(value), a * value, a.wrapped_scalar_multiply(value, byte_length)
InitScalar ==
    /\ a \in Operands /\ b = <<>>
    /\ value \in 0..MaxValue /\ byte_length \in 0..MaxByteLength
    /\ pc = "new" /\ res = <<>> /\ panicked = FALSE

NextScalar == CallScalarMultiply \/ CallMul \/ CallWrappedScalarMultiply

SpecScalar == InitScalar /\ [][NextScalar]_vars

---------------------------------------------------------------------------
(* Helpers of the statements. *)

\* The last w bytes of s (for w <= Len(s)).
LastBytes(s, w) == [i \in 1..w |-> s[Len(s) - w + i]]

\* s cut down to its last w bytes, unchanged when no longer than w.
TruncateOnce(s, w) == IF Len(s) > w THEN LastBytes(s, w) ELSE s

\* Bit k (0 the lowest) of byte x.
RECURSIVE Bit(_, _)
Bit(x, k) == IF k = 0 THEN x % 2 ELSE Bit(x \div 2, k - 1)

\* z is the bitwise exclusive or of the bytes x and y.
IsXor(z, x, y) == \A k \in 0..7 : Bit(z, k) = (IF Bit(x, k) = Bit(y, k) THEN 0 ELSE 1)

\* s < t in the lexicographic order of byte sequences: they agree up to the
\* place where s ends before t does, or where s has the smaller byte.
LexLess(s, t) ==
    \E i \in 1..Len(t) :
        /\ \A j \in 1..(i - 1) : j <= Len(s) /\ s[j] = t[j]
        /\ (i > Len(s) \/ s[i] < t[i])

MaxLenOf(s, t) == Max(Len(s), Len(t))

---------------------------------------------------------------------------
(* The claims. *)

\* C1: addition is exact: for operands of any lengths, aligned at their last
\* byte, the value of a + b is the value of a plus the value of b.
C1_AddExact ==
    pc = "add" => Value(res) = Value(a) + Value(b)

\* C1's case: operands of unequal length whose sum grows past the longer one.
C1_Witness ==
    /\ pc = "add"
    /\ Len(a) # Len(b)
    /\ Len(res) > MaxLenOf(a, b)

\* C2: subtraction is the inverse of addition: whenever a >= b in the
\* lexicographic order, a - b returns a value and (a - b) + b has the value
\* of a.
C2_SubInverse ==
    (pc = "sub" /\ ~LexLess(a, b)) =>
        /\ ~panicked
        /\ Value(add(res, b)) = Value(a)

\* C3: subtraction never returns a wrapped result: when a - b returns a
\* value, no borrow is left after the most-significant position, and every
\* pair with a numerically smaller than b is rejected.
C3_NoSilentWrap ==
    pc = "sub" =>
        /\ ~panicked => sub_loop(a, b, MaxLenOf(a, b)).underflow = 0
        /\ Value(a) < Value(b) => panicked

\* C4: a - b panics exactly when a < b in the lexicographic order of the
\* byte sequences, and returns a value otherwise.
C4_UnderflowFatal ==
    pc = "sub" => (panicked <=> LexLess(a, b))

\* C4's case: a - b panics although a is the longer and numerically the
\* larger operand.
C4_Witness ==
    /\ pc = "sub"
    /\ panicked
    /\ Len(a) > Len(b)
    /\ Value(a) > Value(b)

\* C5: wrapped_add is addition modulo 256^width by truncation: the result is
\* the last width bytes of a + b when a + b is longer than width and a + b
\* otherwise, its length is min(len(a + b), width) and its value is
\* (value(a) + value(b)) mod 256^width.
C5_WrappedAdd ==
    pc = "wrapped_add" =>
        LET s == add(a, b)
        IN  /\ res = (IF Len(s) > byte_length THEN LastBytes(s, byte_length) ELSE s)
            /\ Len(res) = Min(Len(s), byte_length)
            /\ Value(res) = (Value(a) + Value(b)) % Pow256(byte_length)

\* C5's case: a sum longer than a positive width, cut to a nonzero result.
C5_Witness ==
    /\ pc = "wrapped_add"
    /\ byte_length > 0
    /\ Len(add(a, b)) > byte_length
    /\ Value(res) > 0
    /\ Value(res) # Value(a) + Value(b)

\* C6 as claimed: some operand, multiplier from 1 up and width (those of the
\* call at hand or any other that can be drawn) make wrapped_scalar_multiply
\* differ from the full product truncated once.
C6_SomeInputDiffers ==
    pc = "wrapped_scalar_multiply" =>
    \E v \in Operands \cup {a},
       n \in (1..MaxValue) \cup ({value} \ {0}),
       w \in (0..MaxByteLength) \cup {byte_length} :
        wrapped_scalar_multiply(v, n, w) # TruncateOnce(scalar_multiply(v, n), w)

\* C6 as amended: for every operand, multiplier from 1 up and width,
\* wrapped_scalar_multiply equals the full product truncated once.
C6_TruncateOnceEquivalent ==
    (pc = "wrapped_scalar_multiply" /\ value >= 1) =>
        res = TruncateOnce(scalar_multiply(a, value), byte_length)

\* C6's case: an intermediate sum was already truncated, and the final one
\* is truncated again.
C6_Witness ==
    /\ pc = "wrapped_scalar_multiply"
    /\ value >= 3
    /\ byte_length >= 1
    /\ Len(scalar_multiply(a, value - 1)) > byte_length
    /\ Len(scalar_multiply(a, value - 2)) > byte_length
    /\ Value(res) > 0

\* C7: scalar_multiply (and *) yields the exact product: its value is value
\* times the value of the operand, and for value = 0 it is exactly [0].
C7_ScalarMultiplyExact ==
    pc \in {"scalar_multiply", "mul"} =>
        /\ Value(res) = value * Value(a)
        /\ value = 0 => res = <<0>>

\* C7's case: a product that outgrew its operand.
C7_Witness ==
    /\ pc = "mul"
    /\ value >= 2
    /\ Len(a) >= 2
    /\ Len(res) > Len(a)

\* C8: XOR aligns its operands from index 0: the result has the length of
\* the longer operand, byte i is a[i] XOR b[i] where both have one and the
\* longer operand's byte beyond; a ^ a is all zero and a ^ b = b ^ a.
C8_XorForward ==
    pc = "bitxor" =>
        /\ Len(res) = MaxLenOf(a, b)
        /\ \A i \in 1..MaxLenOf(a, b) :
              /\ (i <= Len(a) /\ i <= Len(b)) => IsXor(res[i], a[i], b[i])
              /\ i > Len(b) => res[i] = a[i]
              /\ i > Len(a) => res[i] = b[i]
        /\ a = b => res = [i \in 1..Len(a) |-> 0]
        /\ res = bitxor(b, a)

\* C8's case: operands of unequal length that differ in a common byte.
C8_Witness ==
    /\ pc = "bitxor"
    /\ 0 < Len(a) /\ Len(a) < Len(b)
    /\ res[1] \notin {0, a[1], b[1]}
    /\ res[Len(b)] = b[Len(b)]

\* C9: addition is commutative: a + b and b + a are the same byte sequence.
C9_AddCommutes ==
    pc = "add" => res = add(b, a)

\* C9's case: operands of unequal length and a carry between them.
C9_Witness ==
    /\ pc = "add"
    /\ Len(a) < Len(b)
    /\ Len(a) > 0
    /\ add_loop(a, b, 1).overflow = 1

\* C10: addition grows by at most one byte: the overflow passed from pair to
\* pair is 0 or 1, and the sum has one byte more than the longer operand,
\* the leading byte 1, exactly when an overflow is left after the last pair
\* (the sum does not fit the longer operand's length), and as many otherwise.
C10_GrowsByAtMostOne ==
    pc = "add" =>
        LET n == MaxLenOf(a, b)
            left == add_loop(a, b, n).overflow
        IN  /\ \A k \in 0..n : add_loop(a, b, k).overflow \in {0, 1}
            /\ (left > 0) <=> (Value(a) + Value(b) >= Pow256(n))
            /\ IF left > 0
               THEN Len(res) = n + 1 /\ res[1] = 1
               ELSE Len(res) = n

\* C10's case: an overflow is left after the last pair of equally long
\* operands though none was passed on from the first.
C10_Witness ==
    /\ pc = "add"
    /\ Len(a) = Len(b) /\ Len(a) >= 2
    /\ add_loop(a, b, 1).overflow = 0
    /\ Len(res) = Len(a) + 1

===========================================================================
